---- MODULE Spec2Model ----
(***************************************************************************)
(* Model of src/src/lib/sync.ts: the sync service of the offline-first     *)
(* point of sale: queue replay, full sync, merge and the audit log.        *)
(*                                                                         *)
(* Three specifications:                                                   *)
(*   Spec       the sync service as a state machine: user mutations,       *)
(*              overlapping calls of the sync entry points, the remote's   *)
(*              answers to the requests in flight;                         *)
(*   MergeSpec  mergeData as a pure function over bounded inputs;          *)
(*   AuditSpec  auditLogStorage over a local storage that may fail.        *)
(***************************************************************************)
EXTENDS Integers, Sequences, FiniteSets, TLC

VARIABLES
    env,        \* import.meta.env: [url, key], fixed at build time
    local,      \* the four local collections (medicineStorage, ...): table -> Seq(record)
    remote,     \* the four remote tables: table -> Seq(record)
    queue,      \* queueStorage: Seq(queued action)
    offline,    \* offlineStorage's connectivity flag
    calls,      \* the invocations of the sync entry points: slot -> call record
    nMut,       \* number of user mutations made so far (gives ids and timestamps)
    nRemote,    \* number of requests sent to the remote so far
    mLocal,     \* MergeSpec: the local argument of mergeData
    mRemote,    \* MergeSpec: the remote argument of mergeData
    mOut,       \* MergeSpec: mergeData(mLocal, mRemote)
    mOut2,      \* MergeSpec: mergeData(mOut, mRemote)
    mPhase,     \* MergeSpec: "input" | "merged" | "remerged"
    auditStore, \* AuditSpec: what localStorage holds under AUDIT_LOG_KEY
    auditDenied,\* AuditSpec: localStorage throws on every access
    auditNext,  \* AuditSpec: number of the next audit log entry
    nAdds,      \* AuditSpec: calls of auditLogStorage.add made so far
    auditLast   \* AuditSpec: the last call of auditLogStorage and how it ended

vars == <<env, local, remote, queue, offline, calls, nMut, nRemote,
          mLocal, mRemote, mOut, mOut2, mPhase,
          auditStore, auditDenied, auditNext, nAdds, auditLast>>

syncVars == <<env, local, remote, queue, offline, calls, nMut, nRemote>>
mergeVars == <<mLocal, mRemote, mOut, mOut2, mPhase>>
auditVars == <<auditStore, auditDenied, auditNext, nAdds, auditLast>>

----------------------------------------------------------------------------
(* Bounds *)

\* Spec: user mutations made in one behaviour
MaxMutations == 2
\* Spec: invocations of sync entry points in one behaviour (they may overlap)
MaxCalls == 2
\* Spec: selects of one fullSync that resolve with an error
MaxFailedFetches == 1
\* MergeSpec: Len(local) + Len(remote) of the inputs of mergeData
MaxMergeInput == 3
\* AuditSpec: calls of auditLogStorage.add in one behaviour
MaxAdds == 3

----------------------------------------------------------------------------
(* Records and timestamps *)

\* updatedAt?: string -- the property is absent
Undefined == "<undefined>"

\* new Date(s).getTime() of an invalid date
NaN == -1

T1 == "2024-01-01T00:00:00.000Z"
T2 == "2024-01-02T00:00:00.000Z"
T3 == "2024-01-03T00:00:00.000Z"

\* new Date(s) as compared by >: the time value, NaN for a string that is no date
DateParse(s) ==
    CASE s = T1 -> 1
      [] s = T2 -> 2
      [] s = T3 -> 3
      [] OTHER -> NaN

\* a > b on two Dates: false when either is NaN
DateGreater(a, b) == a # NaN /\ b # NaN /\ a > b

\* JavaScript truthiness of an optional string
Truthy(s) == s # Undefined /\ s # ""

\* Map<string, T> as the sequence of its values in insertion order
MapHas(m, id) == \E i \in DOMAIN m : m[i].id = id

MapGet(m, id) == m[CHOOSE i \in DOMAIN m : m[i].id = id]

\* Map.set: a new key is appended, an existing key keeps its place
MapSet(m, item) ==
    IF MapHas(m, item.id)
    THEN [i \in DOMAIN m |-> IF m[i].id = item.id THEN item ELSE m[i]]
    ELSE Append(m, item)

----------------------------------------------------------------------------
(* mergeData *)

\* remote.forEach(item => merged.set(item.id, item))
RECURSIVE SeedRemote(_, _)
SeedRemote(merged, rem) ==
    IF rem = <<>> THEN merged
    ELSE SeedRemote(MapSet(merged, Head(rem)), Tail(rem))

\* mutant: ties are given to the local record (>= for >)
LocalIsNewerOrEqual(item, remoteItem) ==
    /\ Truthy(item.updatedAt) /\ Truthy(remoteItem.updatedAt)
    /\ ~DateGreater(DateParse(remoteItem.updatedAt), DateParse(item.updatedAt))

\* mutant: a record without updatedAt on either side gives way to the local one
LocalIsNewerOrUndated(item, remoteItem) ==
    \/ ~Truthy(item.updatedAt)
    \/ ~Truthy(remoteItem.updatedAt)
    \/ DateGreater(DateParse(item.updatedAt), DateParse(remoteItem.updatedAt))

\* item.updatedAt && remoteItem.updatedAt
\*   && new Date(item.updatedAt) > new Date(remoteItem.updatedAt)
LocalIsNewer(item, remoteItem) ==
    /\ Truthy(item.updatedAt) /\ Truthy(remoteItem.updatedAt)
    /\ DateGreater(DateParse(item.updatedAt), DateParse(remoteItem.updatedAt))

\* mutant: a local record with no remote counterpart is not added
MergeLocalItemNoInsert(merged, item) ==
    IF MapHas(merged, item.id) /\ LocalIsNewer(item, MapGet(merged, item.id))
    THEN MapSet(merged, item)
    ELSE merged

\* the body of local.forEach
MergeLocalItem(merged, item) ==
    IF ~MapHas(merged, item.id)
    THEN MapSet(merged, item)
    ELSE IF LocalIsNewer(item, MapGet(merged, item.id))
         THEN MapSet(merged, item)
         ELSE merged

RECURSIVE MergeLocal(_, _)
MergeLocal(merged, loc) ==
    IF loc = <<>> THEN merged
    ELSE MergeLocal(MergeLocalItem(merged, Head(loc)), Tail(loc))

\* mutant: the result is collected in an array, not in a map keyed by id
MergeDataConcat(loc, rem) ==
    rem \o SelectSeq(loc, LAMBDA item :
        \/ ~MapHas(rem, item.id)
        \/ LocalIsNewer(item, MapGet(rem, item.id)))

\* mutant: the two snapshots are concatenated
MergeDataAppendAll(loc, rem) == rem \o loc

\* mutant: the local items are never applied to the map
MergeDataRemoteWins(loc, rem) == SeedRemote(<<>>, rem)

\* Array.from(merged.values())
MergeData(loc, rem) == MergeLocal(SeedRemote(<<>>, rem), loc)

----------------------------------------------------------------------------
(* The environment of the sync service: configuration, stores, remote *)

Tables == {"medicines", "sales", "refunds", "expenses"}
Types == {"medicine", "sale", "refund", "expense"}

\* a string as the sequence of its fragments; String.includes finds a fragment
Includes(str, fragment) == \E i \in DOMAIN str : str[i] = fragment

\* VITE_SUPABASE_URL || '' and VITE_SUPABASE_ANON_KEY || ''
Urls == {<<>>, <<"https://abc.", "supabase.co">>}
Keys == {<<"eyJhbGci">>, <<"placeholder", "-key">>}

\* url.includes('supabase.co') && !key.includes('placeholder')
IsSupabaseConfigured ==
    Includes(env.url, "supabase.co") /\ ~Includes(env.key, "placeholder")

\* ids and timestamps of the records the user makes, by mutation number
RecId(n) == <<"r1", "r2", "r3">>[n]
Stamp(n) == <<T1, T2, T3>>[n]

\* a record another terminal has put into the remote medicines table
RemoteSeed == [id |-> "r0", updatedAt |-> T1, v |-> 0]

\* queueStorage.remove(id)
QueueRemove(q, aid) == SelectSeq(q, LAMBDA a : a.id # aid)

RemoveRec(recs, id) == SelectSeq(recs, LAMBDA r : r.id # id)

\* the remote's insert / update ... eq('id', id) / delete ... eq('id', id)
RemoteApply(recs, op) ==
    CASE op.op = "insert" -> Append(recs, op.data)
      [] op.op = "update" ->
            [i \in DOMAIN recs |-> IF recs[i].id = op.id THEN op.data ELSE recs[i]]
      [] op.op = "delete" -> RemoveRec(recs, op.id)

\* an insert of an id the table holds violates the primary key
RemoteAccepts(recs, op) == op.op = "insert" => ~MapHas(recs, op.data.id)

\* the remote's upsert of a batch of records
RemoteUpsert(recs, batch) == SeedRemote(recs, batch)

\* How a request to the remote ends: the promise resolves with { error: null },
\* resolves with { data: null, error } or rejects
Outcomes == {"ok", "error", "throw"}

----------------------------------------------------------------------------
(* Calls of the sync entry points *)

Slots == 1..MaxCalls

NoFetch == [rejected |-> FALSE, failed |-> {}, data |-> [t \in Tables |-> <<>>]]

IdleCall ==
    [kind |-> "none", pc |-> "idle", outcome |-> "none",
     fetch |-> NoFetch,     \* the results of the four selects
     saved |-> {},          \* the local collections this call has saved
     snap |-> <<>>,         \* const queue = queueStorage.getAll()
     passes |-> 0,          \* processQueue passes this call has begun
     issued |-> <<>>,       \* the requests of the pass, in the order sent
     results |-> <<>>,      \* how each of them ended
     payload |-> <<>>,      \* the records handed to upsert
     wrote |-> "none"]      \* what this call wrote to the connectivity flag

\* slot c is free and the slots before it are taken
CanStart(c) ==
    /\ calls[c].pc = "idle"
    /\ c > 1 => calls[c - 1].pc # "idle"

\* the call is over: what it held in its local variables is gone
Returned(cr) == [cr EXCEPT !.pc = "done", !.outcome = "returned",
                           !.payload = <<>>, !.fetch.data = NoFetch.data]
Raised(cr) == [cr EXCEPT !.pc = "done", !.outcome = "raised",
                         !.payload = <<>>, !.fetch.data = NoFetch.data]

\* mutant: the tables of sales and refunds are mixed up
TableOfSwapped(type) ==
    IF type = "medicine" THEN "medicines"
    ELSE IF type = "sale" THEN "refunds"
    ELSE IF type = "refund" THEN "sales"
    ELSE "expenses"

\* action.type === 'medicine' ? 'medicines' : ... : 'expenses'
TableOf(type) ==
    IF type = "medicine" THEN "medicines"
    ELSE IF type = "sale" THEN "sales"
    ELSE IF type = "refund" THEN "refunds"
    ELSE "expenses"

\* processQueuedAction: the request a queued action is turned into
RequestOf(a) ==
    [aid |-> a.id,
     table |-> TableOf(a.type),
     op |-> CASE a.action = "create" -> "insert"
              [] a.action = "update" -> "update"
              [] a.action = "delete" -> "delete",
     id |-> a.data.id,
     data |-> a.data]

\* mutant: a thrown action ends the pass (no try/catch inside the loop)
LoopContinuesUnlessThrown(cr, outcome) ==
    Len(cr.issued) < Len(cr.snap) /\ outcome # "throw"

\* for (const action of queue): there is a next action, however this one ended
LoopContinues(cr, outcome) == Len(cr.issued) < Len(cr.snap)

\* await processQueuedAction(action); queueStorage.remove(action.id)
\* is reached unless the await throws: the result's error is not looked at
RemovedAfter(outcome) == outcome # "throw"

\* processQueue up to its first await: the queue is read, the first request sent
BeginPass(cr, q) ==
    [cr EXCEPT !.snap = q,
               !.passes = @ + 1,
               !.issued = IF q = <<>> THEN <<>> ELSE <<RequestOf(q[1])>>,
               !.results = <<>>,
               !.pc = IF q = <<>> THEN "passDone" ELSE "replaying"]

----------------------------------------------------------------------------
(* The audit log *)

\* if (logs.length > 1000)
AuditLimit == 1000

\* localStorage.getItem(AUDIT_LOG_KEY): null, the JSON of an array of entries,
\* or a string that is no JSON
NoItem == [kind |-> "null", logs |-> <<>>]
JsonItem(logs) == [kind |-> "json", logs |-> logs]
CorruptItem == [kind |-> "corrupt", logs |-> <<>>]

\* the entries numbered from..to, oldest first
Entries(from, to) == [i \in 1..(to - from + 1) |-> [id |-> from + i - 1]]

\* getItem throws (the storage is denied) or JSON.parse throws
ReadFails(store, denied) == denied \/ store.kind = "corrupt"

\* auditLogStorage.getAll: logs ? JSON.parse(logs) : [], and [] from the catch
GetAll(store, denied) ==
    IF ReadFails(store, denied) THEN [result |-> <<>>, raised |-> FALSE]
    ELSE IF store.kind = "null" THEN [result |-> <<>>, raised |-> FALSE]
    ELSE [result |-> store.logs, raised |-> FALSE]

\* mutant: the newest entries are cut off, the oldest kept
KeepFirst(logs) ==
    IF Len(logs) > AuditLimit THEN SubSeq(logs, 1, AuditLimit) ELSE logs

\* if (logs.length > 1000) logs.splice(0, logs.length - 1000)
KeepLast(logs) ==
    IF Len(logs) > AuditLimit
    THEN SubSeq(logs, Len(logs) - AuditLimit + 1, Len(logs))
    ELSE logs

\* mutant: the item is removed before it is written again
AddLogNotAtomic(store, denied, quota, log) ==
    LET logs == KeepLast(Append(GetAll(store, denied).result, log))
    IN  IF denied THEN [store |-> store, stored |-> FALSE, raised |-> FALSE]
        ELSE IF quota THEN [store |-> NoItem, stored |-> FALSE, raised |-> FALSE]
        ELSE [store |-> JsonItem(logs), stored |-> TRUE, raised |-> FALSE]

\* auditLogStorage.add: getAll, push, splice, setItem. setItem throws when the
\* storage is denied or full and leaves the item as it was; the catch logs the
\* error and the call returns
AddLog(store, denied, quota, log) ==
    LET logs == KeepLast(Append(GetAll(store, denied).result, log))
    IN  IF denied \/ quota
        THEN [store |-> store, stored |-> FALSE, raised |-> FALSE]
        ELSE [store |-> JsonItem(logs), stored |-> TRUE, raised |-> FALSE]

\* auditLogStorage.clear: removeItem, with no try around it
ClearLog(store, denied) ==
    IF denied THEN [store |-> store, raised |-> TRUE]
    ELSE [store |-> NoItem, raised |-> FALSE]

NoAuditCall ==
    [op |-> "none", entry |-> [id |-> 0], before |-> NoItem, quota |-> FALSE,
     result |-> <<>>, stored |-> FALSE, raised |-> FALSE]

AuditRest ==
    /\ auditStore = NoItem
    /\ auditDenied = FALSE
    /\ auditNext = 1
    /\ nAdds = 0
    /\ auditLast = NoAuditCall

MergeRest == mOut = <<>> /\ mOut2 = <<>> /\ mLocal = <<>> /\ mRemote = <<>> /\ mPhase = "rest"

Init ==
    /\ env \in [url : Urls, key : Keys]
    /\ local = [t \in Tables |-> <<>>]
    /\ remote = [t \in Tables |-> IF t = "medicines" THEN <<RemoteSeed>> ELSE <<>>]
    /\ queue = <<>>
    /\ offline \in BOOLEAN
    /\ calls = [c \in Slots |-> IdleCall]
    /\ nMut = 0
    /\ nRemote = 0
    /\ MergeRest
    /\ AuditRest

----------------------------------------------------------------------------
(* The callers of the record stores: a mutation changes the local collection
   and appends a queued action *)

Enqueue(ty, kind, rec) ==
    /\ queue' = Append(queue, [id |-> nMut + 1, type |-> ty, action |-> kind, data |-> rec])
    /\ nMut' = nMut + 1
    /\ UNCHANGED <<env, remote, offline, calls, nRemote>>
    /\ UNCHANGED mergeVars
    /\ UNCHANGED auditVars

UserCreate(ty) ==
    /\ nMut < MaxMutations
    /\ LET rec == [id |-> RecId(nMut + 1), updatedAt |-> Undefined, v |-> nMut + 1]
       IN  /\ local' = [local EXCEPT ![TableOf(ty)] = Append(@, rec)]
           /\ Enqueue(ty, "create", rec)

UserUpdate(ty) ==
    /\ nMut < MaxMutations
    /\ \E i \in DOMAIN local[TableOf(ty)] :
          LET rec == [local[TableOf(ty)][i] EXCEPT !.updatedAt = Stamp(nMut + 1),
                                                   !.v = nMut + 1]
          IN  /\ local' = [local EXCEPT ![TableOf(ty)][i] = rec]
              /\ Enqueue(ty, "update", rec)

UserDelete(ty) ==
    /\ nMut < MaxMutations
    /\ \E i \in DOMAIN local[TableOf(ty)] :
          LET rec == local[TableOf(ty)][i]
          IN  /\ local' = [local EXCEPT ![TableOf(ty)] = RemoveRec(@, rec.id)]
              /\ Enqueue(ty, "delete", rec)

----------------------------------------------------------------------------
(* syncMedicines, syncSales, syncRefunds, syncExpenses *)

SyncKind(t) ==
    CASE t = "medicines" -> "syncMedicines"
      [] t = "sales" -> "syncSales"
      [] t = "refunds" -> "syncRefunds"
      [] t = "expenses" -> "syncExpenses"

SyncTable(kind) == CHOOSE t \in Tables : SyncKind(t) = kind

\* mutant: the upsert is sent whether the remote is configured or not
SyncCollectionStartUnguarded(c, t) ==
    /\ CanStart(c)
    /\ calls' = [calls EXCEPT ![c] = [IdleCall EXCEPT !.kind = SyncKind(t),
                                                       !.pc = "upserting",
                                                       !.payload = local[t]]]
    /\ nRemote' = nRemote + 1
    /\ UNCHANGED <<env, local, remote, queue, offline, nMut>>
    /\ UNCHANGED mergeVars
    /\ UNCHANGED auditVars

\* the call up to its await: the guard, getAll(), the upsert is sent
SyncCollectionStart(c, t) ==
    /\ CanStart(c)
    /\ IF ~IsSupabaseConfigured
       THEN /\ calls' = [calls EXCEPT ![c] = Returned([IdleCall EXCEPT !.kind = SyncKind(t)])]
            /\ UNCHANGED nRemote
       ELSE /\ calls' = [calls EXCEPT ![c] = [IdleCall EXCEPT !.kind = SyncKind(t),
                                                              !.pc = "upserting",
                                                              !.payload = local[t]]]
            /\ nRemote' = nRemote + 1
    /\ UNCHANGED <<env, local, remote, queue, offline, nMut>>
    /\ UNCHANGED mergeVars
    /\ UNCHANGED auditVars

SyncMedicines(c) == SyncCollectionStart(c, "medicines")
SyncSales(c) == SyncCollectionStart(c, "sales")
SyncRefunds(c) == SyncCollectionStart(c, "refunds")
SyncExpenses(c) == SyncCollectionStart(c, "expenses")

\* the upsert ends: if (error) throw error, and a rejection propagates
UpsertRespond(c) ==
    /\ calls[c].pc = "upserting"
    /\ \E outcome \in Outcomes :
          LET t == SyncTable(calls[c].kind)
          IN  /\ remote' = IF outcome = "ok"
                           THEN [remote EXCEPT ![t] = RemoteUpsert(@, calls[c].payload)]
                           ELSE remote
              /\ calls' = [calls EXCEPT ![c] = IF outcome = "ok" THEN Returned(@)
                                                                 ELSE Raised(@)]
    /\ UNCHANGED <<env, local, queue, offline, nMut, nRemote>>
    /\ UNCHANGED mergeVars
    /\ UNCHANGED auditVars

----------------------------------------------------------------------------
(* processQueue and fullSync *)

\* mutant: the flag is not written when the sync succeeds
FullSyncSuccessNoFlag(c, cr) ==
    /\ offline' = offline
    /\ calls' = [calls EXCEPT ![c] = Returned(cr)]

\* offlineStorage.setOffline(false), and fullSync returns
FullSyncSuccess(c, cr) ==
    /\ offline' = FALSE
    /\ calls' = [calls EXCEPT ![c] = Returned([cr EXCEPT !.wrote = "online"])]

\* catch (error): offlineStorage.setOffline(true); throw error
FullSyncCatch(c, cr) ==
    /\ offline' = TRUE
    /\ calls' = [calls EXCEPT ![c] = Raised([cr EXCEPT !.wrote = "offline"])]

\* mutant: processQueue marks the application online when it is through
PassReturnsFlagsOnline(c, cr) == FullSyncSuccess(c, cr)

\* processQueue has gone through its loop: it returns to its caller, which is
\* the application or the try block of fullSync
PassReturns(c, cr) ==
    IF cr.kind = "fullSync"
    THEN FullSyncSuccess(c, cr)
    ELSE /\ calls' = [calls EXCEPT ![c] = Returned(cr)]
         /\ UNCHANGED offline

\* the call after BeginPass: it waits for the first request or is through
PassBegun(c, cr) ==
    IF cr.pc = "passDone"
    THEN PassReturns(c, cr) /\ UNCHANGED nRemote
    ELSE /\ calls' = [calls EXCEPT ![c] = cr]
         /\ nRemote' = nRemote + 1
         /\ UNCHANGED offline

StartProcessQueue(c) ==
    /\ CanStart(c)
    /\ IF ~IsSupabaseConfigured
       THEN /\ calls' = [calls EXCEPT ![c] = Returned([IdleCall EXCEPT !.kind = "processQueue"])]
            /\ UNCHANGED <<nRemote, offline>>
       ELSE PassBegun(c, BeginPass([IdleCall EXCEPT !.kind = "processQueue"], queue))
    /\ UNCHANGED <<env, local, remote, queue, nMut>>
    /\ UNCHANGED mergeVars
    /\ UNCHANGED auditVars

\* the request in flight ends; the loop goes on to the next action or is through
ReplayRespond(c) ==
    /\ calls[c].pc = "replaying"
    /\ \E outcome \in Outcomes :
          LET req == calls[c].issued[Len(calls[c].issued)]
              cr == [calls[c] EXCEPT !.results = Append(@, outcome)]
          IN  /\ outcome = "ok" => RemoteAccepts(remote[req.table], req)
              /\ remote' = IF outcome = "ok"
                           THEN [remote EXCEPT ![req.table] = RemoteApply(@, req)]
                           ELSE remote
              /\ queue' = IF RemovedAfter(outcome) THEN QueueRemove(queue, req.aid)
                                                   ELSE queue
              /\ IF LoopContinues(cr, outcome)
                 THEN /\ calls' = [calls EXCEPT ![c] =
                            [cr EXCEPT !.issued = Append(@, RequestOf(cr.snap[Len(cr.issued) + 1]))]]
                      /\ nRemote' = nRemote + 1
                      /\ UNCHANGED offline
                 ELSE /\ PassReturns(c, [cr EXCEPT !.pc = "passDone"])
                      /\ UNCHANGED nRemote
    /\ UNCHANGED <<env, local, nMut>>
    /\ UNCHANGED mergeVars
    /\ UNCHANGED auditVars

\* fullSync up to its await: the guard, the four selects are sent
StartFullSync(c) ==
    /\ CanStart(c)
    /\ IF ~IsSupabaseConfigured
       THEN /\ calls' = [calls EXCEPT ![c] = Returned([IdleCall EXCEPT !.kind = "fullSync"])]
            /\ UNCHANGED nRemote
       ELSE /\ calls' = [calls EXCEPT ![c] = [IdleCall EXCEPT !.kind = "fullSync",
                                                              !.pc = "fetching"]]
            /\ nRemote' = nRemote + 4
    /\ UNCHANGED <<env, local, remote, queue, offline, nMut>>
    /\ UNCHANGED mergeVars
    /\ UNCHANGED auditVars

\* the remote answers the four selects: one is rejected (Promise.all rejects
\* and drops the rest), or each resolves with its rows or with an error
RemoteServesFetch(c) ==
    /\ calls[c].pc = "fetching"
    /\ \E rejected \in BOOLEAN, failed \in SUBSET Tables :
          /\ Cardinality(failed) <= MaxFailedFetches
          /\ rejected => failed = {}
          /\ calls' = [calls EXCEPT ![c].pc = "fetched",
                                    ![c].fetch =
                          [rejected |-> rejected,
                           failed |-> failed,
                           data |-> [t \in Tables |->
                                       IF rejected \/ t \in failed THEN <<>> ELSE remote[t]]]]
    /\ UNCHANGED <<env, local, remote, queue, offline, nMut, nRemote>>
    /\ UNCHANGED mergeVars
    /\ UNCHANGED auditVars

\* mutant: the fetched rows are saved as they are, without the merge
MergedLocalRemoteOnly(fetch) ==
    [t \in Tables |-> IF t \in fetch.failed THEN local[t] ELSE fetch.data[t]]

\* if (result.data) { save(mergeData(getAll(), result.data)) }, per collection
MergedLocal(fetch) ==
    [t \in Tables |-> IF t \in fetch.failed THEN local[t]
                      ELSE MergeData(local[t], fetch.data[t])]

\* fullSync after its await: the catch block, or the merges and the replay
FullSyncResume(c) ==
    /\ calls[c].pc = "fetched"
    /\ IF calls[c].fetch.rejected
       THEN /\ FullSyncCatch(c, calls[c])
            /\ UNCHANGED <<local, nRemote>>
       ELSE /\ local' = MergedLocal(calls[c].fetch)
            /\ PassBegun(c, BeginPass([calls[c] EXCEPT !.saved = Tables \ calls[c].fetch.failed],
                                      queue))
    /\ UNCHANGED <<env, remote, queue, nMut>>
    /\ UNCHANGED mergeVars
    /\ UNCHANGED auditVars

Next ==
    \/ \E ty \in Types : UserCreate(ty)
    \/ \E ty \in Types : UserUpdate(ty)
    \/ \E ty \in Types : UserDelete(ty)
    \/ \E c \in Slots : SyncMedicines(c)
    \/ \E c \in Slots : SyncSales(c)
    \/ \E c \in Slots : SyncRefunds(c)
    \/ \E c \in Slots : SyncExpenses(c)
    \/ \E c \in Slots : UpsertRespond(c)
    \/ \E c \in Slots : StartProcessQueue(c)
    \/ \E c \in Slots : ReplayRespond(c)
    \/ \E c \in Slots : StartFullSync(c)
    \/ \E c \in Slots : RemoteServesFetch(c)
    \/ \E c \in Slots : FullSyncResume(c)

Spec == Init /\ [][Next]_vars

----------------------------------------------------------------------------
(* Properties of the sync service, checked under Spec *)

InQueue(aid) == \E i \in DOMAIN queue : queue[i].id = aid

\* the call has run a processQueue pass and the pass has returned
PassOver(cr) == cr.pc = "done" /\ cr.passes = 1

\* C1: with the remote configured, an action that was in the queue when a
\* processQueue pass began is out of the queue after the pass if and only if
\* its remote operation succeeded; a failed action is still queued.
C1_RemovedIffSucceeded ==
    \A c \in Slots :
        PassOver(calls[c]) =>
            \A i \in DOMAIN calls[c].snap :
                (~InQueue(calls[c].snap[i].id)) <=> (calls[c].results[i] = "ok")

\* C2: within one pass the queued actions are attempted one after the other in
\* insertion order, each once: the request of action k+1 is sent only when the
\* request of action k has ended, and it is sent however action k ended.
C2_SequentialInOrder ==
    \A c \in Slots :
        LET cr == calls[c]
        IN  cr.passes = 1 =>
              /\ \A i, j \in DOMAIN cr.snap : i < j => cr.snap[i].id < cr.snap[j].id
              /\ Len(cr.issued) <= Len(cr.snap)
              /\ \A k \in DOMAIN cr.issued : cr.issued[k].aid = cr.snap[k].id
              /\ cr.pc = "replaying" => Len(cr.results) = Len(cr.issued) - 1
              /\ cr.pc = "done" => /\ Len(cr.issued) = Len(cr.snap)
                                   /\ Len(cr.results) = Len(cr.snap)

\* C2 witness: a finished pass over two actions whose first action threw
C2_Witness ==
    \E c \in Slots :
        /\ PassOver(calls[c])
        /\ Len(calls[c].snap) = 2
        /\ calls[c].results[1] = "throw"
        /\ Len(calls[c].issued) = 2

\* C3: when a fetch of one of the four remote collections fails, the fullSync
\* call is aborted as a whole: it saves no local collection, does not replay
\* the queue, sets the flag to offline and raises the error to its caller.
C3_FetchFailureAborts ==
    \A c \in Slots :
        LET cr == calls[c]
        IN  (cr.kind = "fullSync" /\ (cr.fetch.rejected \/ cr.fetch.failed # {})) =>
              /\ cr.saved = {}
              /\ cr.passes = 0
              /\ cr.pc = "done" => (cr.outcome = "raised" /\ cr.wrote = "offline")

\* a call of an entry point begins in this step
Begins(c) == calls[c].pc = "idle" /\ calls'[c].pc # "idle"

\* C4: when the remote is not configured, every sync entry point returns at
\* once without error, sends nothing to the remote, and leaves the four local
\* collections, the queue and the connectivity flag as they were.
C4_UnconfiguredIsNoOp ==
    /\ [](~IsSupabaseConfigured => nRemote = 0)
    /\ [][\A c \in Slots :
            (~IsSupabaseConfigured /\ Begins(c)) =>
                /\ calls'[c].pc = "done"
                /\ calls'[c].outcome = "returned"
                /\ calls'[c].wrote = "none"
                /\ UNCHANGED <<local, remote, queue, offline, nRemote>>]_vars

\* C4 witness: fullSync and syncMedicines have returned with the remote not
\* configured, while records and queued actions exist
C4_Witness ==
    /\ ~IsSupabaseConfigured
    /\ calls[1].kind = "fullSync" /\ calls[1].pc = "done"
    /\ calls[2].kind = "syncMedicines" /\ calls[2].pc = "done"
    /\ queue # <<>>
    /\ local["medicines"] # <<>>
    /\ offline

\* a configured fullSync call ends in this step
FullSyncEnds(c) ==
    /\ IsSupabaseConfigured
    /\ calls[c].kind = "fullSync"
    /\ calls[c].pc # "done"
    /\ calls'[c].pc = "done"

\* C5: a configured fullSync call ends in one of two ways: it returns with
\* the flag set to online by it, or it raises with the flag set to offline by it.
C5_ReturnsOnlineOrRaisesOffline ==
    [][\A c \in Slots :
          FullSyncEnds(c) =>
              \/ /\ calls'[c].outcome = "returned"
                 /\ calls'[c].wrote = "online"
                 /\ offline' = FALSE
              \/ /\ calls'[c].outcome = "raised"
                 /\ calls'[c].wrote = "offline"
                 /\ offline' = TRUE]_vars

\* C5 witness: one fullSync has raised and another has returned
C5_Witness ==
    /\ IsSupabaseConfigured
    /\ calls[1].kind = "fullSync" /\ calls[1].outcome = "raised"
    /\ calls[2].kind = "fullSync" /\ calls[2].outcome = "returned"
    /\ offline = FALSE

----------------------------------------------------------------------------
(* MergeSpec: mergeData applied to bounded inputs, then to its own result *)

MergeIds == {"r1", "r2"}
MergeStamps == {Undefined, "", "not-a-date", T1, T2}
MergePayloads == {"a", "b"}
MergeRecs == [id : MergeIds, updatedAt : MergeStamps, v : MergePayloads]

\* the sync service at rest, for the specification of mergeData alone
SyncAtRest ==
    /\ env = [url |-> <<>>, key |-> <<>>]
    /\ local = [t \in Tables |-> <<>>]
    /\ remote = [t \in Tables |-> <<>>]
    /\ queue = <<>>
    /\ offline = FALSE
    /\ calls = <<>>
    /\ nMut = 0
    /\ nRemote = 0

MergeInit ==
    /\ SyncAtRest
    /\ \E ll \in 0..MaxMergeInput : \E rl \in 0..(MaxMergeInput - ll) :
          /\ mLocal \in [1..ll -> MergeRecs]
          /\ mRemote \in [1..rl -> MergeRecs]
    /\ mOut = <<>>
    /\ mOut2 = <<>>
    /\ mPhase = "input"
    /\ AuditRest

ApplyMerge ==
    /\ mPhase = "input"
    /\ mOut' = MergeData(mLocal, mRemote)
    /\ mPhase' = "merged"
    /\ UNCHANGED <<mLocal, mRemote, mOut2>>
    /\ UNCHANGED syncVars
    /\ UNCHANGED auditVars

ApplyMergeAgain ==
    /\ mPhase = "merged"
    /\ mOut2' = MergeData(mOut, mRemote)
    /\ mPhase' = "remerged"
    /\ UNCHANGED <<mLocal, mRemote, mOut>>
    /\ UNCHANGED syncVars
    /\ UNCHANGED auditVars

MergeNext == ApplyMerge \/ ApplyMergeAgain

MergeSpec == MergeInit /\ [][MergeNext]_vars

----------------------------------------------------------------------------
(* AuditSpec: calls of auditLogStorage on a log that earlier calls have filled *)

\* the number of entries added to the empty log before the behaviour begins
InitialAdds == {0, 1, AuditLimit - 1, AuditLimit}

AuditInit ==
    /\ SyncAtRest
    /\ MergeRest
    /\ auditDenied \in BOOLEAN
    /\ \E n \in InitialAdds :
          /\ auditStore \in {JsonItem(KeepLast(Entries(1, n))), CorruptItem}
          /\ auditNext = n + 1
    /\ nAdds = 0
    /\ auditLast = NoAuditCall

AuditAdd ==
    /\ nAdds < MaxAdds
    /\ \E quota \in BOOLEAN :
          LET log == [id |-> auditNext]
              res == AddLog(auditStore, auditDenied, quota, log)
          IN  /\ auditStore' = res.store
              /\ auditLast' = [op |-> "add", entry |-> log, before |-> auditStore,
                               quota |-> quota, result |-> <<>>,
                               stored |-> res.stored, raised |-> res.raised]
    /\ auditNext' = auditNext + 1
    /\ nAdds' = nAdds + 1
    /\ UNCHANGED auditDenied
    /\ UNCHANGED syncVars
    /\ UNCHANGED mergeVars

AuditGetAll ==
    /\ LET res == GetAll(auditStore, auditDenied)
       IN  auditLast' = [op |-> "getAll", entry |-> [id |-> 0], before |-> auditStore,
                         quota |-> FALSE, result |-> res.result,
                         stored |-> FALSE, raised |-> res.raised]
    /\ UNCHANGED <<auditStore, auditDenied, auditNext, nAdds>>
    /\ UNCHANGED syncVars
    /\ UNCHANGED mergeVars

AuditClear ==
    /\ LET res == ClearLog(auditStore, auditDenied)
       IN  /\ auditStore' = res.store
           /\ auditLast' = [op |-> "clear", entry |-> [id |-> 0], before |-> auditStore,
                            quota |-> FALSE, result |-> <<>>,
                            stored |-> FALSE, raised |-> res.raised]
    /\ UNCHANGED <<auditDenied, auditNext, nAdds>>
    /\ UNCHANGED syncVars
    /\ UNCHANGED mergeVars

AuditNext == AuditAdd \/ AuditGetAll \/ AuditClear

AuditSpec == AuditInit /\ [][AuditNext]_vars

----------------------------------------------------------------------------
(* Properties of the audit log, checked under AuditSpec *)

\* what getAll returns now, and what it returned before the last call
Retained == GetAll(auditStore, auditDenied).result
RetainedBefore == GetAll(auditLast.before, auditDenied).result

\* the last n elements of a sequence
LastN(seq, n) ==
    IF Len(seq) <= n THEN seq
    ELSE [i \in 1..n |-> seq[Len(seq) - n + i]]

\* C13 as stated: the retained log never holds more than 1000 entries, and
\* every add(e) makes it the last 1000 entries of the log before followed by e.
C13_EveryAddAppends ==
    /\ Len(Retained) <= AuditLimit
    /\ auditLast.op = "add" =>
          Retained = LastN(Append(RetainedBefore, auditLast.entry), AuditLimit)

\* C13 as amended: the retained log never holds more than 1000 entries; an
\* add(e) whose write succeeds makes it the last 1000 entries of the log before
\* followed by e (entry #1001 evicts entry #1), and an add whose write fails
\* leaves it as it was: add discards nothing but the oldest entries.
C13_AuditLogBoundedFifo ==
    /\ Len(Retained) <= AuditLimit
    /\ (auditLast.op = "add" /\ auditLast.stored) =>
          Retained = LastN(Append(RetainedBefore, auditLast.entry), AuditLimit)
    /\ (auditLast.op = "add" /\ ~auditLast.stored) => Retained = RetainedBefore

\* C13 witness: entry #1001 has been added to a full log; #2 is now the oldest
C13_Witness ==
    /\ auditLast.op = "add" /\ auditLast.stored
    /\ auditLast.entry.id = AuditLimit + 1
    /\ Len(RetainedBefore) = AuditLimit /\ RetainedBefore[1].id = 1
    /\ Len(Retained) = AuditLimit
    /\ Retained[1].id = 2
    /\ Retained[AuditLimit].id = AuditLimit + 1

\* C14: getAll never raises and returns the empty sequence when the read or
\* the parse fails; add never raises, and when its write fails the stored log
\* is what it was before the call.
C14_AuditFailuresAreSilent ==
    /\ auditLast.op = "getAll" =>
          /\ ~auditLast.raised
          /\ (auditDenied \/ auditLast.before.kind = "corrupt") => auditLast.result = <<>>
    /\ auditLast.op = "add" =>
          /\ ~auditLast.raised
          /\ (auditDenied \/ auditLast.quota) => auditStore = auditLast.before

\* C14 witness: an add to a full log whose write failed for lack of space
C14_Witness ==
    /\ auditLast.op = "add"
    /\ auditLast.quota /\ ~auditDenied
    /\ ~auditLast.raised
    /\ auditLast.before.kind = "json" /\ Len(auditLast.before.logs) = AuditLimit
    /\ auditStore = auditLast.before

----------------------------------------------------------------------------
(* Properties of mergeData, checked under MergeSpec *)

IdsOf(s) == {s[i].id : i \in DOMAIN s}

Occurrences(s, id) == Cardinality({i \in DOMAIN s : s[i].id = id})

\* the records of s that carry this id, in order
WithId(s, id) == SelectSeq(s, LAMBDA item : item.id = id)

\* the id is held by exactly one local and exactly one remote record
InBothOnce(id) == Occurrences(mLocal, id) = 1 /\ Occurrences(mRemote, id) = 1

\* a's instant is strictly later than b's (no instant, no order)
StrictlyLater(a, b) == DateGreater(DateParse(a.updatedAt), DateParse(b.updatedAt))

\* C6: last write wins. For every id held by one local and one remote record
\* that both carry updatedAt, the merge result holds exactly one record for
\* the id: the local one if its updatedAt is strictly later than the remote's,
\* the remote one otherwise (a tie keeps the remote record).
C6_LastWriteWins ==
    mPhase # "input" =>
        \A id \in MergeIds :
            LET l == MapGet(mLocal, id)
                r == MapGet(mRemote, id)
            IN  (/\ InBothOnce(id)
                 /\ l.updatedAt # Undefined
                 /\ r.updatedAt # Undefined)
                => WithId(mOut, id) = <<IF StrictlyLater(l, r) THEN l ELSE r>>

\* C6 witness: a merged conflict in which the later local record has won
C6_Witness ==
    /\ mPhase = "merged"
    /\ \E id \in MergeIds :
          /\ InBothOnce(id)
          /\ MapGet(mLocal, id).updatedAt = T2
          /\ MapGet(mRemote, id).updatedAt = T1
          /\ MapGet(mLocal, id).v # MapGet(mRemote, id).v
          /\ WithId(mOut, id) = <<MapGet(mLocal, id)>>

\* C7: missing timestamps. For every id held by one local and one remote
\* record, if either of the two has no updatedAt the merge result holds the
\* remote record for the id, whatever the other timestamp is.
C7_MissingTimestampKeepsRemote ==
    mPhase # "input" =>
        \A id \in MergeIds :
            LET l == MapGet(mLocal, id)
                r == MapGet(mRemote, id)
            IN  (/\ InBothOnce(id)
                 /\ (l.updatedAt = Undefined \/ r.updatedAt = Undefined))
                => WithId(mOut, id) = <<r>>

\* C7 witness: a dated local record has given way to an undated remote one
C7_Witness ==
    /\ mPhase = "merged"
    /\ \E id \in MergeIds :
          /\ InBothOnce(id)
          /\ MapGet(mLocal, id).updatedAt = T2
          /\ MapGet(mRemote, id).updatedAt = Undefined
          /\ MapGet(mLocal, id).v # MapGet(mRemote, id).v
          /\ WithId(mOut, id) = <<MapGet(mRemote, id)>>

\* C8: one-sided records are preserved. A record whose id occurs in the local
\* snapshot only (once: a snapshot is keyed by id) is in the merge result
\* unchanged, and so is a record whose id occurs in the remote snapshot only.
C8_OneSidedRecordsPreserved ==
    mPhase # "input" =>
        /\ \A i \in DOMAIN mLocal :
              (Occurrences(mLocal, mLocal[i].id) = 1 /\ ~MapHas(mRemote, mLocal[i].id))
              => WithId(mOut, mLocal[i].id) = <<mLocal[i]>>
        /\ \A i \in DOMAIN mRemote :
              (Occurrences(mRemote, mRemote[i].id) = 1 /\ ~MapHas(mLocal, mRemote[i].id))
              => WithId(mOut, mRemote[i].id) = <<mRemote[i]>>

\* C8 witness: a merge of a local-only record with a remote-only record
C8_Witness ==
    /\ mPhase = "merged"
    /\ Len(mLocal) = 1 /\ Len(mRemote) = 1
    /\ mLocal[1].id # mRemote[1].id
    /\ mOut = <<mRemote[1], mLocal[1]>>

\* C9: for all inputs, also those that repeat an id, the merge result holds no
\* two records with the same id, and its ids are those of the two inputs.
C9_UniqueIdsAndUnion ==
    mPhase # "input" =>
        /\ \A id \in IdsOf(mOut) : Occurrences(mOut, id) = 1
        /\ IdsOf(mOut) = IdsOf(mLocal) \cup IdsOf(mRemote)

\* C9 witness: a merge of inputs in which one id occurs twice locally and once
\* remotely
C9_Witness ==
    /\ mPhase = "merged"
    /\ \E id \in MergeIds : Occurrences(mLocal, id) = 2 /\ Occurrences(mRemote, id) = 1
    /\ Len(mOut) = 1

\* C10: merging the merge result with the same remote snapshot again changes
\* nothing: mergeData(mergeData(local, remote), remote) = mergeData(local, remote).
C10_MergeIdempotent ==
    mPhase = "remerged" => mOut2 = mOut

\* C10 witness: a second merge of a result that holds a local winner, a remote
\* winner's id and a local-only record
C10_Witness ==
    /\ mPhase = "remerged"
    /\ mRemote # <<>>
    /\ \E i \in DOMAIN mLocal :
          /\ MapHas(mRemote, mLocal[i].id)
          /\ mLocal[i] # MapGet(mRemote, mLocal[i].id)
          /\ WithId(mOut, mLocal[i].id) = <<mLocal[i]>>
    /\ \E i \in DOMAIN mLocal : ~MapHas(mRemote, mLocal[i].id)
    /\ mOut2 = mOut

----------------------------------------------------------------------------
(* Further properties of the sync service, checked under Spec *)

\* the call is a reconciliation pass (full sync or queue replay) under way
InFlight(cr) ==
    /\ cr.kind \in {"fullSync", "processQueue"}
    /\ cr.pc \in {"fetching", "fetched", "replaying"}

\* C11: at most one reconciliation pass is in flight at a time: a fullSync or
\* processQueue begun while another one waits for the remote does not run its
\* fetch, merge or replay steps in between the steps of the first.
C11_SinglePassInFlight ==
    Cardinality({c \in Slots : InFlight(calls[c])}) <= 1

\* some pass has seen the action's request succeed
Succeeded(aid) ==
    \E c \in Slots : \E i \in DOMAIN calls[c].results :
        calls[c].snap[i].id = aid /\ calls[c].results[i] = "ok"

\* C12 (its safety part): a pass attempts every action that is queued when it
\* begins, so a failed action is tried again by every later pass while it is
\* queued; and an action leaves the queue only when its request has succeeded
\* in some pass: no queued action is skipped for good or silently dropped.
C12_RetriedUntilSucceeded ==
    /\ \A c \in Slots :
          PassOver(calls[c]) =>
              \A i \in DOMAIN calls[c].snap :
                  \E k \in DOMAIN calls[c].issued :
                      calls[c].issued[k].aid = calls[c].snap[i].id
    /\ \A aid \in 1..nMut : ~InQueue(aid) => Succeeded(aid)

\* C15: the connectivity flag is written by fullSync alone, as the last step of
\* a configured call: no call holds a write before it is over, and no step but
\* the end of a fullSync call writes or changes the flag, so a processQueue
\* pass and the four pushes leave it alone however their requests end.
C15_FlagWrittenOnlyAtFullSyncEnd ==
    /\ [](\A c \in Slots :
            calls[c].wrote # "none" => (calls[c].kind = "fullSync" /\ calls[c].pc = "done"))
    /\ [][\A c \in Slots :
            (calls'[c].wrote # calls[c].wrote => FullSyncEnds(c))]_vars
    /\ [][offline' # offline => \E c \in Slots : FullSyncEnds(c)]_vars

\* C15 witness: a fullSync has raised and set the flag; a processQueue pass
\* whose request succeeded has since returned and the flag is still offline
C15_Witness ==
    /\ calls[1].kind = "fullSync" /\ calls[1].outcome = "raised"
    /\ calls[2].kind = "processQueue" /\ PassOver(calls[2])
    /\ calls[2].results = <<"ok">>
    /\ offline = TRUE

\* fullSync goes on after its await in this step
Resumes(c) == calls[c].pc = "fetched" /\ calls'[c].pc # "fetched"

\* C16: inside fullSync the queue is replayed only after the fetch and after
\* every fetched collection has been merged and saved: a call that has sent a
\* queued action has saved every collection it fetched, and each save replaces
\* the collection by mergeData(the local snapshot read then, the fetched rows).
C16_MergeThenReplay ==
    /\ [](\A c \in Slots :
            (calls[c].kind = "fullSync" /\ calls[c].pc \in {"fetching", "fetched"}) =>
                (calls[c].issued = <<>> /\ calls[c].passes = 0 /\ calls[c].saved = {}))
    /\ [](\A c \in Slots :
            (calls[c].kind = "fullSync" /\ calls[c].passes > 0) =>
                /\ ~calls[c].fetch.rejected
                /\ calls[c].saved = Tables \ calls[c].fetch.failed)
    /\ [][\A c \in Slots :
            (Resumes(c) /\ ~calls[c].fetch.rejected) =>
                \A t \in Tables :
                    local'[t] = IF t \in calls[c].fetch.failed
                                THEN local[t]
                                ELSE MergeData(local[t], calls[c].fetch.data[t])]_vars

\* C16 witness: a fullSync has saved a merge of a remote and a local-only
\* medicine and now waits for the first replayed action
C16_Witness ==
    \E c \in Slots :
        /\ calls[c].kind = "fullSync" /\ calls[c].pc = "replaying"
        /\ calls[c].saved = Tables
        /\ Len(local["medicines"]) = 2
        /\ MapHas(local["medicines"], "r0")
        /\ Len(remote["medicines"]) = 1

ExpectedTable(type) ==
    CASE type = "medicine" -> "medicines"
      [] type = "sale" -> "sales"
      [] type = "refund" -> "refunds"
      [] type = "expense" -> "expenses"

ExpectedOp(action) ==
    CASE action = "create" -> "insert"
      [] action = "update" -> "update"
      [] action = "delete" -> "delete"

\* the request of call c that is in flight ends in this step
Responds(c) ==
    /\ calls[c].pc = "replaying"
    /\ Len(calls'[c].results) = Len(calls[c].results) + 1

\* C17: the request sent for a queued action goes to the collection named by
\* action.type; create sends an insert of action.data, update an update of
\* action.data matched by action.data.id, delete a delete matched by
\* action.data.id; one request per attempted action, and when it ends no other
\* collection and no other id of the remote has changed.
C17_ReplayDispatch ==
    /\ [](\A c \in Slots : \A k \in DOMAIN calls[c].issued :
            LET a == calls[c].snap[k]
                r == calls[c].issued[k]
            IN  /\ r.table = ExpectedTable(a.type)
                /\ r.op = ExpectedOp(a.action)
                /\ r.id = a.data.id
                /\ r.data = a.data)
    /\ [][\A c \in Slots :
            Responds(c) =>
                LET r == calls[c].issued[Len(calls[c].issued)]
                    ok == calls'[c].results[Len(calls'[c].results)] = "ok"
                    rows == remote'[r.table]
                IN  /\ \A t \in Tables \ {r.table} : remote'[t] = remote[t]
                    /\ \A i \in DOMAIN remote[r.table] :
                          remote[r.table][i].id # r.id =>
                              \E j \in DOMAIN rows : rows[j] = remote[r.table][i]
                    /\ \A j \in DOMAIN rows :
                          rows[j].id # r.id =>
                              \E i \in DOMAIN remote[r.table] : remote[r.table][i] = rows[j]
                    /\ ~ok => remote' = remote
                    /\ (ok /\ r.op = "insert") => (MapHas(rows, r.id) /\ MapGet(rows, r.id) = r.data)
                    /\ (ok /\ r.op = "update" /\ MapHas(remote[r.table], r.id)) =>
                          MapGet(rows, r.id) = r.data
                    /\ (ok /\ r.op = "delete") => ~MapHas(rows, r.id)
                    /\ nRemote' - nRemote \in {0, 1}]_vars

\* C17 witness: a pass has replayed the create of a refund and the create of
\* an expense, and each record is in its own remote table
C17_Witness ==
    \E c \in Slots :
        /\ PassOver(calls[c])
        /\ Len(calls[c].snap) = 2
        /\ calls[c].snap[1].type = "refund" /\ calls[c].snap[2].type = "expense"
        /\ calls[c].results = <<"ok", "ok">>
        /\ Len(remote["refunds"]) = 1 /\ Len(remote["expenses"]) = 1
        /\ remote["sales"] = <<>>

\* C18: a record deleted locally whose delete is still queued does not come
\* back into the local collection through fullSync; and after a fullSync that
\* has replayed the delete with success the record's id is in neither the
\* remote nor the local collection.
C18_PendingDeleteStaysDeleted ==
    /\ \A i \in DOMAIN queue :
          queue[i].action = "delete" =>
              ~MapHas(local[ExpectedTable(queue[i].type)], queue[i].data.id)
    /\ \A c \in Slots :
          (calls[c].kind = "fullSync" /\ PassOver(calls[c])) =>
              \A i \in DOMAIN calls[c].results :
                  (calls[c].snap[i].action = "delete" /\ calls[c].results[i] = "ok") =>
                      /\ ~MapHas(remote[ExpectedTable(calls[c].snap[i].type)],
                                 calls[c].snap[i].data.id)
                      /\ ~MapHas(local[ExpectedTable(calls[c].snap[i].type)],
                                 calls[c].snap[i].data.id)

\* C19: failures of replayed actions never abort fullSync: when the four
\* fetches succeed the call returns and sets the flag to online even if every
\* replayed action failed, and the failed actions are still queued.
C19_ReplayFailuresDoNotAbort ==
    \A c \in Slots :
        (/\ calls[c].kind = "fullSync" /\ PassOver(calls[c])
         /\ ~calls[c].fetch.rejected /\ calls[c].fetch.failed = {}) =>
            /\ calls[c].outcome = "returned"
            /\ calls[c].wrote = "online"
            /\ \A i \in DOMAIN calls[c].results :
                  calls[c].results[i] # "ok" => InQueue(calls[c].snap[i].id)

\* C20: fullSync never drops a record id from a local collection: right after
\* a save the collection holds every id it held right before the save and
\* every id of the fetched rows, whatever has happened since the fetch.
C20_SaveKeepsEveryId ==
    [][\A c \in Slots :
          (Resumes(c) /\ ~calls[c].fetch.rejected) =>
              \A t \in Tables \ calls[c].fetch.failed :
                  (IdsOf(local[t]) \cup IdsOf(calls[c].fetch.data[t])) \subseteq IdsOf(local'[t])]_vars

\* C20 witness: two overlapping fullSync calls; the first has saved a
\* collection that holds the remote medicine and one made locally that the
\* remote does not hold, the second has its rows and has not yet merged
C20_Witness ==
    /\ calls[1].kind = "fullSync" /\ calls[1].pc = "done" /\ calls[1].saved = Tables
    /\ calls[2].kind = "fullSync" /\ calls[2].pc = "fetched"
    /\ MapHas(local["medicines"], "r0")
    /\ \E i \in DOMAIN local["medicines"] :
          ~MapHas(remote["medicines"], local["medicines"][i].id)

====
